---- MODULE Spec2Model ----
(***************************************************************************)
(* Move-table realignment (dorado/utils/sequence_utils.cpp).               *)
(*                                                                         *)
(* realign_moves is modelled as a state machine whose steps are the        *)
(* statements and loop iterations of the function.  The approximate mapper *)
(* (minimap2) and the exact aligner (edlib) are external libraries: their  *)
(* results are chosen nondeterministically among the values their          *)
(* contracts allow.  Cursors keep the C++ 0-based values; entry i of a     *)
(* C++ vector v is v[i + 1] here.  moves_to_map and the two versions of    *)
(* reverse_complement_impl follow as calls of their own (SpecMap, SpecRc). *)
(***************************************************************************)
EXTENDS Integers, Sequences, FiniteSets, TLC

\* ------------------------------------------------------------------ bounds
\* Longest well-formed move table drawn as input.
MaxMoves == 5
\* Longest query / target sequence drawn as input.
MaxBases == 4
\* The same two bounds for the runs on arbitrary (also malformed) tables.
MaxAnyMoves == 4
MaxAnyBases == 3
\* Out-of-range reads of the move table that yield a value before the run
\* is cut off (an out-of-range read may also fault at once).
MaxOOB == 1

\* ------------------------------------------------------- edit operations
\* edlib's operation codes, as the walk compares them (lines 293-318).
EDOP_MATCH == 0
EDOP_INSERT == 1
EDOP_DELETE == 2
EDOP_MISMATCH == 3

Ops == {EDOP_MATCH, EDOP_INSERT, EDOP_DELETE, EDOP_MISMATCH}

VARIABLES
    moves,              \* the original move table (input)
    query_len,          \* length of query_sequence (input)
    target_len,         \* length of target_sequence (input)
    is_overlap,         \* compute_overlap's result, as destructured at line 242
    query_start,
    query_end,
    target_start,
    target_end,
    path,               \* edlib_result.alignment: the aligner's whole edit script
    alignment,          \* the copy of it the walk iterates over (lines 265-268)
    ai,                 \* number of entries of alignment the for loop has taken
    new_moves,
    new_move_cursor,
    old_move_cursor,
    query_seq_cursor,
    target_seq_cursor,
    moves_found,
    old_moves_offset,
    oob_reads,          \* out-of-range reads of moves so far
    result,             \* the returned tuple, once returned
    pc

\* The other functions of the file, each modelled as a call of its own.
VARIABLES
    block_stride,       \* moves_to_map: its arguments (with moves) ...
    signal_len,
    reserve_size,       \* ... the optional hint: <<>> or <<n>>
    scan_i,             \* the loop index i of line 180
    seq_to_sig_map,
    map_capacity,       \* capacity of seq_to_sig_map
    sequence,           \* reverse_complement: its argument
    rc_default,         \* reverse_complement_impl of lines 23-52 on sequence
    rc_avx2,            \* reverse_complement_impl of lines 58-123 on sequence
    rc_twice            \* each implementation applied to its own result

mapVars == <<block_stride, signal_len, reserve_size, scan_i, seq_to_sig_map,
             map_capacity>>

rcVars == <<sequence, rc_default, rc_avx2, rc_twice>>

\* mean_qscore_from_qstring.
VARIABLES
    qstring,            \* its arguments
    start_pos,
    q_cursor,           \* the position std::accumulate has reached
    total_error,
    mean_qscore         \* the value returned, once returned

qVars == <<qstring, start_pos, q_cursor, total_error, mean_qscore>>

\* compute_overlap.
VARIABLES
    reg,                \* the mapper's hits, in its order
    best_map,           \* std::max_element: the best hit so far (0-based)
    ov_scan,            \* ... and the hit it looks at next
    overlap_result

ovVars == <<reg, best_map, ov_scan, overlap_result>>

\* move_cum_sums (its argument is moves).
VARIABLES
    ans,
    cs_i                \* the loop index i of line 349

csVars == <<ans, cs_i>>

\* count_trailing_chars.
VARIABLES
    adapter,            \* its arguments
    tc_c,
    tc_count,           \* the local count
    tc_i                \* the loop index i of line 374, a size_t

tcVars == <<adapter, tc_c, tc_count, tc_i>>

\* Calls made by independent workers.
VARIABLES
    w_pc,               \* per worker: where its call is
    w_job,              \* ... which function it calls
    w_arg,              \* ... the argument
    w_cursor,           \* ... std::accumulate's position
    w_total,            \* ... total_error
    w_result,           \* ... the value returned
    table_guard,        \* initialisation guard of the static kCharToScoreTable
    table_filled,       \* the table's entries have been written
    table_writes        \* how often they have been written

concVars == <<w_pc, w_job, w_arg, w_cursor, w_total, w_result, table_guard,
              table_filled, table_writes>>

moreVars == <<qVars, ovVars, csVars, tcVars, concVars>>

utilVars == <<mapVars, rcVars, moreVars>>

\* The variables of realign_moves other than its argument moves and pc.
realignVars == <<query_len, target_len, is_overlap, query_start, query_end,
                 target_start, target_end, path, alignment, ai, new_moves,
                 new_move_cursor, old_move_cursor, query_seq_cursor,
                 target_seq_cursor, moves_found, old_moves_offset, oob_reads,
                 result>>

vars == <<moves, realignVars, utilVars, pc>>

\* For the actions of each function, the variables of all the others.
qOthers == <<moves, realignVars, mapVars, rcVars, ovVars, csVars, tcVars,
             concVars>>
ovOthers == <<moves, realignVars, mapVars, rcVars, qVars, csVars, tcVars,
              concVars>>
csOthers == <<moves, realignVars, mapVars, rcVars, qVars, ovVars, tcVars,
              concVars>>
tcOthers == <<moves, realignVars, mapVars, rcVars, qVars, ovVars, csVars,
              concVars>>
concOthers == <<moves, realignVars, mapVars, rcVars, qVars, ovVars, csVars,
                tcVars>>

\* ------------------------------------------------------------- helpers
Max(a, b) == IF a >= b THEN a ELSE b

\* Number of entries of s that lie in S.
CountIn(s, S) == Cardinality({i \in 1..Len(s) : s[i] \in S})

\* All move tables of length 0..n over {0, 1}.
MoveTables(n) == UNION {[1..k -> {0, 1}] : k \in 0..n}

\* The values a byte read outside the table may have: only zero / non-zero
\* matters to the walk, the numeric value to the pre-roll's sum.
OOBValues == {0, 1, 255}

\* moves[i] of the C++ code: the entry when i is inside the table, any byte
\* otherwise (undefined behaviour).
InRange(i) == i >= 0 /\ i < Len(moves)
ReadValues(i) == IF InRange(i) THEN {moves[i + 1]}
                 ELSE IF oob_reads < MaxOOB THEN OOBValues ELSE {}
NoteRead(i) == IF InRange(i) THEN oob_reads ELSE oob_reads + 1

\* ------------------------------------------------ external collaborators
\* The exact aligner's contract: a global alignment of a query window of
\* qw bases and a target window of tw bases consumes every base of both.
\* EDOP_MATCH/EDOP_MISMATCH consume one base of each, EDOP_INSERT one
\* target base, EDOP_DELETE one query base.
RECURSIVE GlobalPaths(_, _)
GlobalPaths(qw, tw) ==
    IF qw = 0 /\ tw = 0 THEN {<<>>}
    ELSE (IF qw > 0 /\ tw > 0
             THEN {<<op>> \o p : op \in {EDOP_MATCH, EDOP_MISMATCH},
                                 p \in GlobalPaths(qw - 1, tw - 1)}
             ELSE {})
         \cup (IF tw > 0
                  THEN {<<EDOP_INSERT>> \o p : p \in GlobalPaths(qw, tw - 1)}
                  ELSE {})
         \cup (IF qw > 0
                  THEN {<<EDOP_DELETE>> \o p : p \in GlobalPaths(qw - 1, tw)}
                  ELSE {})

\* The aligner returns a script of minimal edit distance.  Such a script
\* never puts an insertion next to a deletion (one mismatch is cheaper), and
\* costs no more than pairing the windows base by base and inserting the
\* rest, which is the longer window's length.
Cost(p) == CountIn(p, Ops \ {EDOP_MATCH})

Minimal(p) ==
    /\ \A i \in 1..(Len(p) - 1) :
          {p[i], p[i + 1]} # {EDOP_INSERT, EDOP_DELETE}
    /\ Cost(p) <= Max(CountIn(p, Ops \ {EDOP_INSERT}),
                      CountIn(p, Ops \ {EDOP_DELETE}))

EdlibPaths(qw, tw) == {p \in GlobalPaths(qw, tw) : Minimal(p)}

\* edlib reports, for a global alignment, the inclusive first and last
\* position of the alignment in its second sequence, which is the query
\* window here (lines 256-259).
startLocations(qw) == 0
endLocations(qw) == qw - 1

\* Lines 263-264.
alignment_size(qw) == endLocations(qw) - startLocations(qw)

\* Lines 265-268: alignment_size entries of the path, from startLocations[0].
CopiedAlignment(p, qw) ==
    SubSeq(p, startLocations(qw) + 1, startLocations(qw) + alignment_size(qw))

\* Number of 1-entries of a table.
Ones(t) == CountIn(t, {1})

\* The upstream invariant of a move table: one 1 per called base, at the
\* block where the base's signal begins, so a non-empty table starts with 1.
WellFormed(t, nbases) == Ones(t) = nbases /\ (Len(t) > 0 => t[1] = 1)

\* --------------------------------------------------------------- Init
\* No call of moves_to_map or reverse_complement is under way.
MapIdle ==
    /\ block_stride = 0
    /\ signal_len = 0
    /\ reserve_size = <<>>
    /\ scan_i = 0
    /\ seq_to_sig_map = <<>>
    /\ map_capacity = 0

RcIdle ==
    /\ sequence = <<>>
    /\ rc_default = <<>>
    /\ rc_avx2 = <<>>
    /\ rc_twice = <<>>

QIdle ==
    /\ qstring = <<>>
    /\ start_pos = 0
    /\ q_cursor = 0
    /\ total_error = 0
    /\ mean_qscore = 0

OvIdle ==
    /\ reg = <<>>
    /\ best_map = 0
    /\ ov_scan = 0
    /\ overlap_result = <<>>

CsIdle ==
    /\ ans = <<>>
    /\ cs_i = 0

TcIdle ==
    /\ adapter = <<>>
    /\ tc_c = 0
    /\ tc_count = 0
    /\ tc_i = 0

ConcIdle ==
    /\ w_pc = <<>>
    /\ w_job = <<>>
    /\ w_arg = <<>>
    /\ w_cursor = <<>>
    /\ w_total = <<>>
    /\ w_result = <<>>
    /\ table_guard = "uninitialised"
    /\ table_filled = FALSE
    /\ table_writes = 0

\* No call of the remaining functions is under way.
MoreIdle == QIdle /\ OvIdle /\ CsIdle /\ TcIdle /\ ConcIdle


\* The locals of realign_moves before line 242.
RealignIdle ==
    /\ is_overlap = FALSE
    /\ query_start = 0
    /\ query_end = 0
    /\ target_start = 0
    /\ target_end = 0
    /\ path = <<>>
    /\ alignment = <<>>
    /\ ai = 0
    /\ new_moves = <<>>
    /\ new_move_cursor = 0
    /\ old_move_cursor = 0
    /\ query_seq_cursor = 0
    /\ target_seq_cursor = 0
    /\ moves_found = 0
    /\ old_moves_offset = 0
    /\ oob_reads = 0
    /\ result = <<>>

\* The arguments and locals of realign_moves, none of them in use.
NoRealign ==
    /\ query_len = 0
    /\ target_len = 0
    /\ RealignIdle

\* The state at the call of realign_moves, before line 242.
AtCall ==
    /\ RealignIdle
    /\ MapIdle
    /\ RcIdle
    /\ MoreIdle
    /\ pc = "call"

\* Calls on well-formed tables, as the upstream stage produces them.
Init ==
    /\ moves \in MoveTables(MaxMoves)
    /\ query_len \in 0..MaxBases
    /\ target_len \in 0..MaxBases
    /\ WellFormed(moves, query_len)
    /\ AtCall

\* Calls on any table, well-formed or not.
InitAny ==
    /\ moves \in MoveTables(MaxAnyMoves)
    /\ query_len \in 0..MaxAnyBases
    /\ target_len \in 0..MaxAnyBases
    /\ AtCall

\* ------------------------------------------------------------- actions
\* Line 242 (compute_overlap, lines 189-235): no hit gives found = false and
\* four zero offsets; a hit gives a non-empty window of each sequence.
ComputeOverlap ==
    /\ pc = "call"
    /\ \/ /\ is_overlap' = FALSE
          /\ query_start' = 0 /\ query_end' = 0
          /\ target_start' = 0 /\ target_end' = 0
       \/ /\ is_overlap' = TRUE
          /\ \E qs \in 0..query_len, qe \in 0..query_len,
                ts \in 0..target_len, te \in 0..target_len :
                /\ qs < qe /\ ts < te
                /\ query_start' = qs /\ query_end' = qe
                /\ target_start' = ts /\ target_end' = te
    /\ pc' = "align"
    /\ UNCHANGED <<utilVars, moves, query_len, target_len, path, alignment, ai,
                   new_moves, new_move_cursor, old_move_cursor,
                   query_seq_cursor, target_seq_cursor, moves_found,
                   old_moves_offset, oob_reads, result>>

\* Lines 249-259: the aligner runs on the two windows, whatever is_overlap.
\* With an empty window edlib returns early, without path or locations.
Align ==
    /\ pc = "align"
    /\ LET qw == query_end - query_start
           tw == target_end - target_start
       IN  IF qw = 0 \/ tw = 0
              THEN path' = <<>>
              ELSE path' \in EdlibPaths(qw, tw)
    /\ pc' = "extract"
    /\ UNCHANGED <<utilVars, moves, query_len, target_len, is_overlap, query_start,
                   query_end, target_start, target_end, alignment, ai,
                   new_moves, new_move_cursor, old_move_cursor,
                   query_seq_cursor, target_seq_cursor, moves_found,
                   old_moves_offset, oob_reads, result>>

\* Lines 263-280: copy the walked part of the path and set up the cursors.
ExtractAlignment ==
    /\ pc = "extract"
    /\ query_end - query_start > 0
    /\ target_end - target_start > 0
    /\ alignment' = CopiedAlignment(path, query_end - query_start)
    /\ new_moves' = <<>>
    /\ new_move_cursor' = 0
    /\ old_move_cursor' = 0
    /\ query_seq_cursor' = query_start
    /\ target_seq_cursor' = target_start
    /\ moves_found' = 0
    /\ ai' = 0
    /\ pc' = "preroll"
    /\ UNCHANGED <<utilVars, moves, query_len, target_len, is_overlap, query_start,
                   query_end, target_start, target_end, path,
                   old_moves_offset, oob_reads, result>>

\* Lines 263-264 after edlib's early return: startLocations is null, and
\* reading it is undefined.  The read faults ...
ExtractFault ==
    /\ pc = "extract"
    /\ (query_end - query_start = 0 \/ target_end - target_start = 0)
    /\ pc' = "crashed"
    /\ UNCHANGED <<utilVars, moves, query_len, target_len, is_overlap, query_start,
                   query_end, target_start, target_end, path, alignment, ai,
                   new_moves, new_move_cursor, old_move_cursor,
                   query_seq_cursor, target_seq_cursor, moves_found,
                   old_moves_offset, oob_reads, result>>

\* ... or yields some value.  The path is null as well, so the copy of
\* lines 265-268 gets through only when alignment_size comes out as 0.
ExtractUndefined ==
    /\ pc = "extract"
    /\ (query_end - query_start = 0 \/ target_end - target_start = 0)
    /\ alignment' = <<>>
    /\ new_moves' = <<>>
    /\ new_move_cursor' = 0
    /\ old_move_cursor' = 0
    /\ query_seq_cursor' = query_start
    /\ target_seq_cursor' = target_start
    /\ moves_found' = 0
    /\ ai' = 0
    /\ pc' = "preroll"
    /\ UNCHANGED <<utilVars, moves, query_len, target_len, is_overlap, query_start,
                   query_end, target_start, target_end, path,
                   old_moves_offset, oob_reads, result>>

\* Lines 282-287: one iteration of the pre-roll.
PreRollGuard == moves_found < Len(moves) /\ moves_found < query_start

PreRollStep ==
    /\ pc = "preroll"
    /\ PreRollGuard
    /\ \E v \in ReadValues(old_move_cursor) :
          moves_found' = moves_found + v
    /\ oob_reads' = NoteRead(old_move_cursor)
    /\ old_move_cursor' = old_move_cursor + 1
    /\ UNCHANGED <<utilVars, moves, query_len, target_len, is_overlap, query_start,
                   query_end, target_start, target_end, path, alignment, ai,
                   new_moves, new_move_cursor, query_seq_cursor,
                   target_seq_cursor, old_moves_offset, result, pc>>

\* Faulty variant of PreRollOffset: steps back over two blocks.
PreRollOffsetTwoBack(cursor) == cursor - 2

\* Lines 288-289.
PreRollOffset(cursor) == cursor - 1

PreRollExit ==
    /\ pc = "preroll"
    /\ ~PreRollGuard
    /\ old_move_cursor' = PreRollOffset(old_move_cursor)
    /\ old_moves_offset' = PreRollOffset(old_move_cursor)
    /\ pc' = "walk"
    /\ UNCHANGED <<utilVars, moves, query_len, target_len, is_overlap, query_start,
                   query_end, target_start, target_end, path, alignment, ai,
                   new_moves, new_move_cursor, query_seq_cursor,
                   target_seq_cursor, moves_found, oob_reads, result>>

\* Lines 293-298: match or mismatch, up to the inner loop.
IsMatchEntry(e) == e = EDOP_MATCH \/ e = EDOP_MISMATCH

MatchBegin ==
    /\ pc = "walk" /\ ai < Len(alignment)
    /\ IsMatchEntry(alignment[ai + 1])
    /\ new_moves' = Append(new_moves, 1)
    /\ new_move_cursor' = new_move_cursor + 1
    /\ old_move_cursor' = old_move_cursor + 1
    /\ pc' = "match_loop"
    /\ UNCHANGED <<utilVars, moves, query_len, target_len, is_overlap, query_start,
                   query_end, target_start, target_end, path, alignment, ai,
                   query_seq_cursor, target_seq_cursor, moves_found,
                   old_moves_offset, oob_reads, result>>

\* Faulty variants of NewTableAhead: the test of line 301 dropped, and taken
\* with <=.
NewTableNeverAhead(old, new, offset) == FALSE
NewTableAlwaysAhead(old, new, offset) == TRUE
NewTableAheadOrLevel(old, new, offset) == old <= new + offset

\* Line 301: the new table is ahead of the old cursor.
NewTableAhead(old, new, offset) == old < new + offset

\* Lines 300-303: a trailing 0 that is consumed without being emitted.
MatchLoopSkip ==
    /\ pc = "match_loop"
    /\ 0 \in ReadValues(old_move_cursor)
    /\ NewTableAhead(old_move_cursor, new_move_cursor, old_moves_offset)
    /\ old_move_cursor' = old_move_cursor + 1
    /\ oob_reads' = NoteRead(old_move_cursor)
    /\ UNCHANGED <<utilVars, moves, query_len, target_len, is_overlap, query_start,
                   query_end, target_start, target_end, path, alignment, ai,
                   new_moves, new_move_cursor, query_seq_cursor,
                   target_seq_cursor, moves_found, old_moves_offset, result,
                   pc>>

\* Lines 300, 303-307: a trailing 0 that is consumed and emitted.
MatchLoopEmit ==
    /\ pc = "match_loop"
    /\ 0 \in ReadValues(old_move_cursor)
    /\ ~NewTableAhead(old_move_cursor, new_move_cursor, old_moves_offset)
    /\ new_moves' = Append(new_moves, 0)
    /\ new_move_cursor' = new_move_cursor + 1
    /\ old_move_cursor' = old_move_cursor + 1
    /\ oob_reads' = NoteRead(old_move_cursor)
    /\ UNCHANGED <<utilVars, moves, query_len, target_len, is_overlap, query_start,
                   query_end, target_start, target_end, path, alignment, ai,
                   query_seq_cursor, target_seq_cursor, moves_found,
                   old_moves_offset, result, pc>>

\* Lines 300, 310-312: the inner loop ends on a non-zero entry.
MatchEnd ==
    /\ pc = "match_loop"
    /\ \E v \in ReadValues(old_move_cursor) : v # 0
    /\ oob_reads' = NoteRead(old_move_cursor)
    /\ query_seq_cursor' = query_seq_cursor + 1
    /\ target_seq_cursor' = target_seq_cursor + 1
    /\ ai' = ai + 1
    /\ pc' = "walk"
    /\ UNCHANGED <<utilVars, moves, query_len, target_len, is_overlap, query_start,
                   query_end, target_start, target_end, path, alignment,
                   new_moves, new_move_cursor, old_move_cursor, moves_found,
                   old_moves_offset, result>>

\* Faulty variant of InsertTarget: the insertion also moves the original
\* cursor.
InsertTargetMovesOldCursor ==
    /\ pc = "walk" /\ ai < Len(alignment)
    /\ alignment[ai + 1] = EDOP_INSERT
    /\ new_moves' = Append(new_moves, 1)
    /\ new_move_cursor' = new_move_cursor + 1
    /\ old_move_cursor' = old_move_cursor + 1
    /\ target_seq_cursor' = target_seq_cursor + 1
    /\ ai' = ai + 1
    /\ UNCHANGED <<utilVars, moves, query_len, target_len, is_overlap, query_start,
                   query_end, target_start, target_end, path, alignment,
                   query_seq_cursor, moves_found,
                   old_moves_offset, oob_reads, result, pc>>

\* Lines 313-317: insertion to target.
InsertTarget ==
    /\ pc = "walk" /\ ai < Len(alignment)
    /\ alignment[ai + 1] = EDOP_INSERT
    /\ new_moves' = Append(new_moves, 1)
    /\ new_move_cursor' = new_move_cursor + 1
    /\ target_seq_cursor' = target_seq_cursor + 1
    /\ ai' = ai + 1
    /\ UNCHANGED <<utilVars, moves, query_len, target_len, is_overlap, query_start,
                   query_end, target_start, target_end, path, alignment,
                   old_move_cursor, query_seq_cursor, moves_found,
                   old_moves_offset, oob_reads, result, pc>>

\* Faulty variant of InsertQueryBegin: the discarded 1 gets no 0 in the new
\* table.
InsertQueryBeginDropsBlock ==
    /\ pc = "walk" /\ ai < Len(alignment)
    /\ alignment[ai + 1] = EDOP_DELETE
    /\ old_move_cursor' = old_move_cursor + 1
    /\ pc' = "query_loop"
    /\ UNCHANGED <<utilVars, moves, query_len, target_len, is_overlap, query_start,
                   query_end, target_start, target_end, path, alignment, ai,
                   new_moves, new_move_cursor,
                   query_seq_cursor, target_seq_cursor, moves_found,
                   old_moves_offset, oob_reads, result>>

\* Lines 318-322: insertion to query, up to the inner loop.
InsertQueryBegin ==
    /\ pc = "walk" /\ ai < Len(alignment)
    /\ alignment[ai + 1] = EDOP_DELETE
    /\ new_moves' = Append(new_moves, 0)
    /\ new_move_cursor' = new_move_cursor + 1
    /\ old_move_cursor' = old_move_cursor + 1
    /\ pc' = "query_loop"
    /\ UNCHANGED <<utilVars, moves, query_len, target_len, is_overlap, query_start,
                   query_end, target_start, target_end, path, alignment, ai,
                   query_seq_cursor, target_seq_cursor, moves_found,
                   old_moves_offset, oob_reads, result>>

\* Faulty variant of InsertQueryLoop: a trailing 0 is consumed and not
\* emitted.
InsertQueryLoopDropsBlock ==
    /\ pc = "query_loop"
    /\ 0 \in ReadValues(old_move_cursor)
    /\ old_move_cursor' = old_move_cursor + 1
    /\ oob_reads' = NoteRead(old_move_cursor)
    /\ UNCHANGED <<utilVars, moves, query_len, target_len, is_overlap, query_start,
                   query_end, target_start, target_end, path, alignment, ai,
                   new_moves, new_move_cursor,
                   query_seq_cursor, target_seq_cursor, moves_found,
                   old_moves_offset, result, pc>>

\* Lines 323-327: one trailing 0 of the discarded base.
InsertQueryLoop ==
    /\ pc = "query_loop"
    /\ 0 \in ReadValues(old_move_cursor)
    /\ new_moves' = Append(new_moves, 0)
    /\ old_move_cursor' = old_move_cursor + 1
    /\ new_move_cursor' = new_move_cursor + 1
    /\ oob_reads' = NoteRead(old_move_cursor)
    /\ UNCHANGED <<utilVars, moves, query_len, target_len, is_overlap, query_start,
                   query_end, target_start, target_end, path, alignment, ai,
                   query_seq_cursor, target_seq_cursor, moves_found,
                   old_moves_offset, result, pc>>

\* Lines 323, 328-329: the inner loop ends on a non-zero entry.
InsertQueryEnd ==
    /\ pc = "query_loop"
    /\ \E v \in ReadValues(old_move_cursor) : v # 0
    /\ oob_reads' = NoteRead(old_move_cursor)
    /\ query_seq_cursor' = query_seq_cursor + 1
    /\ ai' = ai + 1
    /\ pc' = "walk"
    /\ UNCHANGED <<utilVars, moves, query_len, target_len, is_overlap, query_start,
                   query_end, target_start, target_end, path, alignment,
                   new_moves, new_move_cursor, old_move_cursor,
                   target_seq_cursor, moves_found, old_moves_offset, result>>

\* A read of moves outside the table (lines 285, 300, 323) may fault.
ReadFault ==
    /\ pc \in {"match_loop", "query_loop"} \/ (pc = "preroll" /\ PreRollGuard)
    /\ ~InRange(old_move_cursor)
    /\ pc' = "crashed"
    /\ UNCHANGED <<utilVars, moves, query_len, target_len, is_overlap, query_start,
                   query_end, target_start, target_end, path, alignment, ai,
                   new_moves, new_move_cursor, old_move_cursor,
                   query_seq_cursor, target_seq_cursor, moves_found,
                   old_moves_offset, oob_reads, result>>

\* Line 341.
ReturnValue == <<old_moves_offset, target_start - 1, new_moves>>

Return ==
    /\ pc = "walk" /\ ai = Len(alignment)
    /\ result' = ReturnValue
    /\ pc' = "done"
    /\ UNCHANGED <<utilVars, moves, query_len, target_len, is_overlap, query_start,
                   query_end, target_start, target_end, path, alignment, ai,
                   new_moves, new_move_cursor, old_move_cursor,
                   query_seq_cursor, target_seq_cursor, moves_found,
                   old_moves_offset, oob_reads>>

\* The steps of a call that reads no entry outside the table.
Next ==
    \/ ComputeOverlap
    \/ Align
    \/ ExtractAlignment
    \/ ExtractFault
    \/ ExtractUndefined
    \/ PreRollStep
    \/ PreRollExit
    \/ MatchBegin
    \/ MatchLoopSkip
    \/ MatchLoopEmit
    \/ MatchEnd
    \/ InsertTarget
    \/ InsertQueryBegin
    \/ InsertQueryLoop
    \/ InsertQueryEnd
    \/ Return

\* A well-formed table is never read outside its range (ReadsInRange
\* below), so ReadFault is no step of Spec.
Spec == Init /\ [][Next]_vars

NextAny == Next \/ ReadFault

SpecAny == InitAny /\ [][NextAny]_vars

\* Every read of moves in a call of Spec is inside the table.
ReadsInRange ==
    (pc \in {"match_loop", "query_loop"} \/ (pc = "preroll" /\ PreRollGuard))
        => InRange(old_move_cursor)

\* ------------------------------------------------- vocabulary of the claims
\* The walk has reached the point named: the offsets are set / it returned.
PreRollDone == pc \in {"walk", "match_loop", "query_loop", "done"}
Returned == pc = "done"

MatchOps == {EDOP_MATCH, EDOP_MISMATCH}

\* Index (0-based) of the 1 of base k (0-based) of table t; the table's
\* length for k = Ones(t), and -1 for k = -1.
OneIndex(t, k) ==
    IF k < 0 THEN -1
    ELSE CHOOSE i \in 0..Len(t) :
            /\ CountIn(SubSeq(t, 1, i), {1}) = k
            /\ (i = Len(t) \/ t[i + 1] = 1)

\* Number of blocks the bases a..b-1 own: each base's 1 and its trailing 0s.
BlocksOf(t, a, b) == OneIndex(t, b) - OneIndex(t, a)

\* Number of original blocks the walk has moved over.
Consumed == old_move_cursor - old_moves_offset

\* Position (1-based) in s of its only entry in S.
PositionOf(s, S) == CHOOSE i \in 1..Len(s) : s[i] \in S

\* s holds exactly one entry e, and match/mismatch entries otherwise.
OneOpAmongMatches(s, e) ==
    /\ CountIn(s, {e}) = 1
    /\ CountIn(s, MatchOps) = Len(s) - 1

AllOnes(n) == [i \in 1..n |-> 1]

\* ---------------------------------------------------------------- C1
\* C1: when compute_overlap reports found = false, realign_moves goes no
\* further than the overlap call (no alignment, no pre-roll, no walk) and
\* reports NoOverlapFound instead of a new move table.
C1_NoOverlapStopsReconstructor ==
    (pc # "call" /\ ~is_overlap)
        => (pc = "align" \/ result = <<"NoOverlapFound">>)

\* ---------------------------------------------------------------- C2
\* C2: for an edit script of only MATCH/MISMATCH operations the new move
\* table has as many entries as the query bases of the window own blocks in
\* the original table.
C2_MatchOnlyPreservesBlockCount ==
    (Returned /\ is_overlap /\ CountIn(path, MatchOps) = Len(path))
        => Len(new_moves) = BlocksOf(moves, query_start, query_end)

\* ---------------------------------------------------------------- C5
\* C5: a table of n ones, an overlap that spans both sequences from 0 and a
\* script of n MATCH/MISMATCH operations give back n ones and
\* old_moves_offset = 0.
C5_FullOverlapAllOnes ==
    (/\ Returned /\ is_overlap
     /\ Len(moves) > 0 /\ moves = AllOnes(Len(moves))
     /\ query_start = 0 /\ query_end = Len(moves)
     /\ target_start = 0 /\ target_end = Len(moves)
     /\ Len(path) = Len(moves) /\ CountIn(path, MatchOps) = Len(path))
        => (result[3] = AllOnes(Len(moves)) /\ result[1] = 0)

\* ---------------------------------------------------------------- C6
\* C6: after the pre-roll old_moves_offset is the index of the 1 of query
\* base number query_start: query_start 1-flags lie strictly before it.
C6_OffsetIsWindowStart ==
    (PreRollDone /\ is_overlap)
        => /\ InRange(old_moves_offset)
           /\ moves[old_moves_offset + 1] = 1
           /\ CountIn(SubSeq(moves, 1, old_moves_offset), {1}) = query_start

\* --------------------------------------------------------------- C10
\* C10: the returned table has one 1 per target base of the window, which
\* is one per MATCH/MISMATCH/INSERT_IN_TARGET operation of the edit script.
C10_OnesEqualTargetBases ==
    (Returned /\ is_overlap)
        => /\ Ones(new_moves) = target_end - target_start
           /\ Ones(new_moves) = CountIn(path, MatchOps \cup {EDOP_INSERT})

\* ---------------------------------------------------------------- C3
\* Where the original-table cursor rests once the walk has taken j
\* query-consuming operations on a well-formed table.
CursorAfter(j) == OneIndex(moves, query_start - 1 + j)

\* The original statement of C3: with exactly one INSERT_IN_TARGET among
\* MATCH/MISMATCH operations the new table has one block more than the
\* window's original blocks, and the inserted base's 1 is directly followed
\* by the next base's 1.
C3_InsertTargetAddsOneBlock ==
    (Returned /\ is_overlap /\ OneOpAmongMatches(path, EDOP_INSERT))
        => LET p == PositionOf(path, {EDOP_INSERT})
               pos == BlocksOf(moves, query_start, query_start + p - 1) + 1
           IN  /\ Len(new_moves) = BlocksOf(moves, query_start, query_end) + 1
               /\ pos <= Len(new_moves)
               /\ new_moves[pos] = 1
               /\ pos < Len(new_moves) => new_moves[pos + 1] = 1

\* C3 (amended): with exactly one INSERT_IN_TARGET among the MATCH/MISMATCH
\* operations of the edit script, the new table is one block longer than
\* the original blocks the walk consumed only if the insertion is walked and
\* no 0 is consumed after it, and has as many blocks otherwise; a walked
\* insertion's 1 is directly followed by the next base's 1.
C3_InsertTargetBlockCaughtUp ==
    (Returned /\ is_overlap /\ OneOpAmongMatches(path, EDOP_INSERT))
        => LET p == PositionOf(path, {EDOP_INSERT})
               atInsert == CursorAfter(p - 1)
               zerosAfter == (old_move_cursor - atInsert) - (Len(alignment) - p)
               pos == atInsert - old_moves_offset + 1
           IN  IF p > Len(alignment)
                  THEN Len(new_moves) = Consumed
                  ELSE /\ Len(new_moves) =
                             Consumed + (IF zerosAfter = 0 THEN 1 ELSE 0)
                       /\ pos <= Len(new_moves)
                       /\ new_moves[pos] = 1
                       /\ pos < Len(new_moves) => new_moves[pos + 1] = 1

\* A walk with one INSERT_IN_TARGET after which a trailing 0 was consumed:
\* the new table is no longer than the blocks consumed.
C3_Witness ==
    /\ Returned /\ is_overlap /\ OneOpAmongMatches(path, EDOP_INSERT)
    /\ PositionOf(path, {EDOP_INSERT}) < Len(alignment)
    /\ Len(new_moves) = Consumed
    /\ old_move_cursor - CursorAfter(PositionOf(path, {EDOP_INSERT}) - 1)
          > Len(alignment) - PositionOf(path, {EDOP_INSERT})

\* ---------------------------------------------------------------- C4
\* The original statement of C4: with exactly one INSERT_IN_QUERY among
\* MATCH/MISMATCH operations the new table has one block fewer than the
\* window's original blocks, and the discarded base's blocks are 0s.
C4_InsertQueryRemovesOneBlock ==
    (Returned /\ is_overlap /\ OneOpAmongMatches(path, EDOP_DELETE))
        => LET p == PositionOf(path, {EDOP_DELETE})
               from == BlocksOf(moves, query_start, query_start + p - 1)
               to == BlocksOf(moves, query_start, query_start + p)
           IN  /\ Len(new_moves) = BlocksOf(moves, query_start, query_end) - 1
               /\ to <= Len(new_moves)
               /\ \A i \in (from + 1)..to : new_moves[i] = 0

\* C4 (amended): with exactly one INSERT_IN_QUERY among the MATCH/MISMATCH
\* operations of the edit script, the new table has exactly as many blocks
\* as the walk consumed from the original table, and every block the
\* INSERT_IN_QUERY step consumed, when the walk takes it, is a 0 of the new
\* table.
C4_InsertQueryKeepsBlockCount ==
    (Returned /\ is_overlap /\ OneOpAmongMatches(path, EDOP_DELETE))
        => LET p == PositionOf(path, {EDOP_DELETE})
               from == CursorAfter(p - 1) - old_moves_offset
               to == CursorAfter(p) - old_moves_offset
           IN  /\ Len(new_moves) = Consumed
               /\ p <= Len(alignment) =>
                     /\ from < to /\ to <= Len(new_moves)
                     /\ \A i \in (from + 1)..to : new_moves[i] = 0
                     /\ Ones(new_moves) = Len(alignment) - 1

\* A walk that takes the one INSERT_IN_QUERY, whose base owned a trailing 0,
\* and a MATCH after it.
C4_Witness ==
    /\ Returned /\ is_overlap /\ OneOpAmongMatches(path, EDOP_DELETE)
    /\ LET p == PositionOf(path, {EDOP_DELETE})
       IN  /\ p < Len(alignment)
           /\ CursorAfter(p) - CursorAfter(p - 1) >= 2

\* ---------------------------------------------------------------- C7
\* The parts of a MATCH/MISMATCH step.
MatchStepBegins == pc = "walk" /\ pc' = "match_loop"
MatchStepConsumesZero ==
    pc = "match_loop" /\ pc' = "match_loop" /\ old_move_cursor' # old_move_cursor
MatchStepEnds == pc = "match_loop" /\ pc' = "walk"

\* What every MATCH/MISMATCH step does apart from emitting 0s.
MatchStepFrame ==
    /\ MatchStepBegins =>
          /\ new_moves' = Append(new_moves, 1)
          /\ old_move_cursor' = old_move_cursor + 1
          /\ query_seq_cursor' = query_seq_cursor
          /\ target_seq_cursor' = target_seq_cursor
    /\ MatchStepConsumesZero =>
          /\ old_move_cursor' = old_move_cursor + 1
          /\ InRange(old_move_cursor) => moves[old_move_cursor + 1] = 0
          /\ query_seq_cursor' = query_seq_cursor
          /\ target_seq_cursor' = target_seq_cursor
    /\ MatchStepEnds =>
          /\ new_moves' = new_moves
          /\ old_move_cursor' = old_move_cursor
          /\ InRange(old_move_cursor) => moves[old_move_cursor + 1] # 0
          /\ query_seq_cursor' = query_seq_cursor + 1
          /\ target_seq_cursor' = target_seq_cursor + 1

\* The original statement of C7: every MATCH/MISMATCH step appends one 1
\* and then one 0 for each trailing 0 it consumes, consumes a 1 and its run
\* of 0s, and advances both base cursors by one.
C7_MatchEmitsEveryZero ==
    [][/\ MatchStepFrame
       /\ MatchStepConsumesZero => new_moves' = Append(new_moves, 0)]_vars

\* C7 (amended): every MATCH/MISMATCH step appends one 1, moves the
\* original cursor on by one and over each following 0, appends one 0 for
\* each of these 0s except while the new table is ahead of the original
\* cursor (length of the new table + old_moves_offset > old_move_cursor),
\* when the 0 is consumed and not emitted, and advances both base cursors
\* by one.
C7_MatchEmitsZeroUnlessAhead ==
    [][/\ MatchStepFrame
       /\ MatchStepConsumesZero =>
             new_moves' = IF Len(new_moves) + old_moves_offset > old_move_cursor
                             THEN new_moves
                             ELSE Append(new_moves, 0)]_vars

\* A MATCH/MISMATCH step has just ended that consumed a 0 of the original
\* table and emitted none.
C7_Witness ==
    /\ pc = "walk" /\ ai >= 1 /\ alignment[ai] \in MatchOps
    /\ new_moves[Len(new_moves)] = 1
    /\ InRange(old_move_cursor - 1) /\ moves[old_move_cursor] = 0

C9_InsertTargetFrame ==
    [][(pc = "walk" /\ ai < Len(alignment) /\ alignment[ai + 1] = EDOP_INSERT
        /\ ai' # ai) =>
          /\ new_moves' = Append(new_moves, 1)
          /\ target_seq_cursor' = target_seq_cursor + 1
          /\ old_move_cursor' = old_move_cursor
          /\ query_seq_cursor' = query_seq_cursor]_vars

\* An INSERT_IN_TARGET step has just been taken, in the middle of a walk.
C9_Witness ==
    /\ pc = "walk" /\ ai >= 2 /\ alignment[ai] = EDOP_INSERT
    /\ new_moves[Len(new_moves)] = 1
    /\ target_seq_cursor - target_start > query_seq_cursor - query_start

\* --------------------------------------------------------------- C11
\* The call is at a statement that reads moves[old_move_cursor]: the
\* pre-roll's sum (line 285) or a trailing-zero loop's test (lines 300, 323).
AtRead ==
    pc \in {"match_loop", "query_loop"} \/ (pc = "preroll" /\ PreRollGuard)

\* C11: for every move table, malformed ones included, every read of the
\* original table in the pre-roll and the walk uses an index inside the
\* table, and no read outside the table has happened.
C11_NoReadOutsideTable ==
    /\ AtRead => InRange(old_move_cursor)
    /\ oob_reads = 0

\* --------------------------------------------------------------- C12
\* The slice of table t that starts at index from (0-based) and has n
\* entries.
SliceOf(t, from, n) == SubSeq(t, from + 1, from + n)

\* C12: for an edit script of only MATCH operations the returned table is
\* the slice of the original table that starts at old_moves_offset and has
\* the returned table's length.
C12_MatchOnlyReturnsSlice ==
    (Returned /\ is_overlap /\ CountIn(path, {EDOP_MATCH}) = Len(path))
        => /\ result[1] >= 0
           /\ result[1] + Len(result[3]) <= Len(moves)
           /\ result[3] = SliceOf(moves, result[1], Len(result[3]))

\* --------------------------------------------------------------- C13
\* From the initialisation of the cursors (lines 273-280) to the return.
Running == pc \in {"preroll", "walk", "match_loop", "query_loop"}

CursorsInitialised == pc = "extract" /\ pc' = "preroll"

SeededFromOverlap ==
    /\ query_seq_cursor' = query_start
    /\ target_seq_cursor' = target_start

InZeroLoop == pc \in {"match_loop", "query_loop"}

\* C14: the walk ends by returning once the edit script is exhausted; in
\* particular a trailing-zero loop whose cursor has reached the end of the
\* original table stops there and hands back to the walk.
C14_ZeroLoopStopsAtTableEnd ==
    [][(InZeroLoop /\ old_move_cursor >= Len(moves)) => pc' = "walk"]_vars

\* ============================================================ moves_to_map
\* moves_to_map (lines 170-187) as a call of its own: its arguments are
\* drawn at Init, its steps are the reserve, the iterations of the scan
\* and the final push_back.

\* Bounds of the arguments drawn.
MaxMapMoves == 4
MaxStride == 2
MaxSignal == 5
MaxReserve == 1

\* std::optional<size_t>: empty, or one value.
Optionals(n) == {<<>>} \cup {<<k>> : k \in 0..n}

InitMap ==
    /\ moves \in MoveTables(MaxMapMoves)
    /\ block_stride \in 0..MaxStride
    /\ signal_len \in 0..MaxSignal
    /\ reserve_size \in Optionals(MaxReserve)
    /\ scan_i = 0
    /\ seq_to_sig_map = <<>>
    /\ map_capacity = 0
    /\ query_len = 0
    /\ target_len = 0
    /\ RealignIdle
    /\ RcIdle
    /\ MoreIdle
    /\ pc = "map_call"

\* Lines 176-178: the hint only reserves storage.
MapReserve ==
    /\ pc = "map_call"
    /\ map_capacity' = IF reserve_size # <<>> THEN reserve_size[1] ELSE 0
    /\ pc' = "map_scan"
    /\ UNCHANGED <<moves, realignVars, rcVars, moreVars, block_stride, signal_len,
                   reserve_size, scan_i, seq_to_sig_map>>

\* push_back: the vector keeps its capacity while the new element fits,
\* and reallocates to twice the size otherwise.
GrownCapacity(cap, size) ==
    IF size < cap THEN cap ELSE IF size = 0 THEN 1 ELSE 2 * size

\* Faulty variant of IsMove: every block starts a base.
IsMoveAlways(entry) == TRUE

\* Line 181.
IsMove(entry) == entry = 1

\* Faulty variants of BlockStart: the block's end; counted from the
\* table's end.
BlockStartNext(i_, stride) == (i_ + 1) * stride
BlockStartFromEnd(i_, stride) == (Len(moves) - i_) * stride

\* Line 182: the sample index at which block i_ starts.
BlockStart(i_, stride) == i_ * stride

\* Lines 180-184: one iteration of the scan.
MapScanStep ==
    /\ pc = "map_scan"
    /\ scan_i < Len(moves)
    /\ IF IsMove(moves[scan_i + 1])
          THEN /\ seq_to_sig_map' =
                      Append(seq_to_sig_map, BlockStart(scan_i, block_stride))
               /\ map_capacity' =
                      GrownCapacity(map_capacity, Len(seq_to_sig_map))
          ELSE UNCHANGED <<seq_to_sig_map, map_capacity>>
    /\ scan_i' = scan_i + 1
    /\ UNCHANGED <<moves, realignVars, rcVars, moreVars, block_stride, signal_len,
                   reserve_size, pc>>

\* Lines 185-186: the sentinel, and the return.
MapSentinel ==
    /\ pc = "map_scan"
    /\ scan_i = Len(moves)
    /\ seq_to_sig_map' = Append(seq_to_sig_map, signal_len)
    /\ map_capacity' = GrownCapacity(map_capacity, Len(seq_to_sig_map))
    /\ pc' = "map_done"
    /\ UNCHANGED <<moves, realignVars, rcVars, moreVars, block_stride, signal_len,
                   reserve_size, scan_i>>

NextMap ==
    \/ MapReserve
    \/ MapScanStep
    \/ MapSentinel

SpecMap == InitMap /\ [][NextMap]_vars

MapReturned == pc = "map_done"

\* --------------------------------------------------------------- C15
\* C15: for every move table, block stride and signal length the returned
\* map has one entry per 1 of the table, plus one.
C15_MapLengthIsOnesPlusOne ==
    MapReturned => Len(seq_to_sig_map) = Ones(moves) + 1

\* A returned map of a table that holds both 1s and 0s.
C15_Witness ==
    /\ MapReturned
    /\ Ones(moves) >= 2
    /\ Ones(moves) < Len(moves)
    /\ Len(seq_to_sig_map) = 3

\* --------------------------------------------------------------- C16
\* The map the claim describes: the start of the block of each 1, in
\* increasing order of the block index, and signal_len as last entry.
ExpectedMap ==
    [j \in 1..(Ones(moves) + 1) |->
        IF j <= Ones(moves) THEN OneIndex(moves, j - 1) * block_stride
        ELSE signal_len]

\* C16: the returned map holds exactly i * block_stride for the block
\* indices i whose entry is 1, in increasing order of i, and then
\* signal_len; a table without 1s gives the one-entry map of signal_len;
\* the size hint has no part in the result.
C16_MapIsBlockStartsThenSentinel ==
    MapReturned =>
        /\ seq_to_sig_map = ExpectedMap
        /\ (Ones(moves) = 0 => seq_to_sig_map = <<signal_len>>)

\* A returned map of a table with 1s and 0s, computed with a size hint.
C16_Witness ==
    /\ MapReturned
    /\ reserve_size # <<>>
    /\ block_stride = 2
    /\ moves = <<1, 0, 1, 1>>
    /\ seq_to_sig_map = <<0, 4, 6, signal_len>>

\* --------------------------------------------------------------- C17
NonDecreasing(m) == \A j \in 1..(Len(m) - 1) : m[j] <= m[j + 1]

\* The base starts of a map: all its entries but the sentinel.
BaseStarts(m) == SubSeq(m, 1, Len(m) - 1)

\* C17 as claimed: for every move table, positive block stride and signal
\* length the returned map is non-decreasing over its whole length, the
\* step to the sentinel included.
C17_MapNonDecreasing ==
    (MapReturned /\ block_stride > 0) => NonDecreasing(seq_to_sig_map)

\* C17 as the code has it: the base starts are non-decreasing (and differ
\* pairwise when the stride is positive); the whole map is non-decreasing
\* exactly when signal_len is not below the last base start.
C17_MapNonDecreasingUpToSentinel ==
    MapReturned =>
        /\ NonDecreasing(BaseStarts(seq_to_sig_map))
        /\ block_stride > 0 =>
              \A j \in 1..(Ones(moves) - 1) :
                  seq_to_sig_map[j] < seq_to_sig_map[j + 1]
        /\ NonDecreasing(seq_to_sig_map)
              <=> (Ones(moves) = 0
                     \/ signal_len >= seq_to_sig_map[Ones(moves)])

\* A returned map of several bases whose signal covers the whole table: it
\* is non-decreasing up to and including its sentinel.
C17_Witness ==
    /\ MapReturned
    /\ block_stride > 0
    /\ Ones(moves) >= 2
    /\ signal_len >= Len(moves) * block_stride
    /\ NonDecreasing(seq_to_sig_map)

\* ====================================================== reverse_complement
\* The two versions of reverse_complement_impl (lines 23-52 and 58-123) as
\* operators on strings, a string being the sequence of its bytes, and a
\* run that calls both on the same argument and then each on its own
\* result.  A pointer is its 0-based offset into the string.

\* ASCII codes of the four bases.
BaseA == 65
BaseC == 67
BaseG == 71
BaseT == 84

Bases == {BaseA, BaseC, BaseG, BaseT}

\* Bytes per AVX2 register (line 82) and per lane of it (line 75).
kUnroll == 32
LaneBytes == 16

\* Bounds of the arguments drawn: every string up to MaxShortLen, and up
\* to MaxSeqLen the strings with at most one base unlike the others.
MaxShortLen == 4
MaxSeqLen == 65

AllSeqs(n) == UNION {[1..k -> Bases] : k \in 0..n}

\* Both versions write to position i some function of one byte of the
\* argument; strings that differ from a uniform one at a single place tell
\* apart any two such results.  The string of k bases b with m at place p:
MarkerSeq(k, p, b, m) == [i \in 1..k |-> IF i = p THEN m ELSE b]

\* Faulty variant of kComplementTable: C is left as it is.
kComplementTableKeepsC(byte) ==
    CASE byte = BaseA -> BaseT
      [] byte = BaseT -> BaseA
      [] byte = BaseC -> BaseC
      [] byte = BaseG -> BaseC
      [] OTHER -> 0

\* Lines 34-42: the 256-entry table, zero but for four entries.
kComplementTable(byte) ==
    CASE byte = BaseA -> BaseT
      [] byte = BaseT -> BaseA
      [] byte = BaseC -> BaseG
      [] byte = BaseG -> BaseC
      [] OTHER -> 0

\* Faulty variant of DefaultLoop: reads the template from its start.
RECURSIVE DefaultLoopForward(_, _, _)
DefaultLoopForward(seq, template_ptr, out) ==
    IF Len(out) = Len(seq) THEN out
    ELSE DefaultLoopForward(seq, template_ptr - 1,
             Append(out, kComplementTable(seq[Len(out) + 1])))

\* Lines 45-50: *complement_ptr++ = kComplementTable[*template_ptr--];
\* complement_ptr is the length of out.
RECURSIVE DefaultLoop(_, _, _)
DefaultLoop(seq, template_ptr, out) ==
    IF Len(out) = Len(seq) THEN out
    ELSE DefaultLoop(seq, template_ptr - 1,
             Append(out, kComplementTable(seq[template_ptr + 1])))

\* Lines 23-52.
reverse_complement_impl_default(seq) ==
    IF seq = <<>> THEN <<>>
    ELSE DefaultLoop(seq, Len(seq) - 1, <<>>)

\* _mm256_setr_epi8 lists the bytes from byte 0 up, _mm256_set_epi8 from
\* byte 31 down.
mm256_setr_epi8(list) == list
mm256_set_epi8(list) == [j \in 1..kUnroll |-> list[kUnroll + 1 - j]]

\* Lines 71-73: indexed by the low 4 bits of a base.
kComplementTableAvx2 ==
    mm256_setr_epi8(<<0, BaseT, 0, BaseG, BaseA, 0, 0, BaseC,
                      0, 0, 0, 0, 0, 0, 0, 0,
                      0, BaseT, 0, BaseG, BaseA, 0, 0, BaseC,
                      0, 0, 0, 0, 0, 0, 0, 0>>)

\* Lines 77-79.
kByteReverseTable ==
    mm256_set_epi8(<<0, 1, 2, 3, 4, 5, 6, 7, 8, 9, 10, 11, 12, 13, 14, 15,
                     0, 1, 2, 3, 4, 5, 6, 7, 8, 9, 10, 11, 12, 13, 14, 15>>)

\* PSHUFB: byte j of the result is zero when the high bit of b's byte j is
\* set, else the byte of a, in the lane of j, that the low 4 bits of b's
\* byte j select.
mm256_shuffle_epi8(a, b) ==
    [j \in 1..kUnroll |->
        IF b[j] >= 128 THEN 0
        ELSE a[LaneBytes * ((j - 1) \div LaneBytes) + (b[j] % LaneBytes) + 1]]

\* Line 93: 32 bytes from ptr on.
mm256_loadu_si256(seq, ptr) == [j \in 1..kUnroll |-> seq[ptr + j]]

\* Lines 101-102.
mm256_extracti128_si256(v, lane) ==
    SubSeq(v, LaneBytes * lane + 1, LaneBytes * (lane + 1))
mm256_castsi256_si128(v) == SubSeq(v, 1, LaneBytes)

\* Line 117: a zero register with byte 0 set.
mm256_insert_epi8(byte) == [j \in 1..kUnroll |-> IF j = 1 THEN byte ELSE 0]

\* Faulty variant of ChunkOut: stores the lanes in their own order.
ChunkOutLanesInOrder(seq, template_ptr) ==
    LET template_bases == mm256_loadu_si256(seq, template_ptr)
        complement_bases ==
            mm256_shuffle_epi8(kComplementTableAvx2, template_bases)
        reversed_lanes ==
            mm256_shuffle_epi8(complement_bases, kByteReverseTable)
    IN  mm256_castsi256_si128(reversed_lanes)
            \o mm256_extracti128_si256(reversed_lanes, 1)

\* Lines 91-104: the 32 bytes one iteration of the main loop stores at
\* complement_ptr.
ChunkOut(seq, template_ptr) ==
    LET template_bases == mm256_loadu_si256(seq, template_ptr)
        complement_bases ==
            mm256_shuffle_epi8(kComplementTableAvx2, template_bases)
        reversed_lanes ==
            mm256_shuffle_epi8(complement_bases, kByteReverseTable)
        upper_lane == mm256_extracti128_si256(reversed_lanes, 1)
        lower_lane == mm256_castsi256_si128(reversed_lanes)
    IN  upper_lane \o lower_lane

\* Lines 90-108: the main loop; complement_ptr is the length of out.
RECURSIVE Avx2MainLoop(_, _, _, _)
Avx2MainLoop(seq, chunk_i, template_ptr, out) ==
    IF chunk_i < Len(seq) \div kUnroll
       THEN Avx2MainLoop(seq, chunk_i + 1, template_ptr - kUnroll,
                         out \o ChunkOut(seq, template_ptr))
       ELSE out

\* Lines 114-120: the loop over the last 0-31 bytes.
RECURSIVE Avx2TailLoop(_, _, _, _)
Avx2TailLoop(seq, i_, template_ptr, out) ==
    IF i_ < Len(seq) % kUnroll
       THEN LET template_base == mm256_insert_epi8(seq[template_ptr + 1])
                complement_base ==
                    mm256_shuffle_epi8(kComplementTableAvx2, template_base)
            IN  Avx2TailLoop(seq, i_ + 1, template_ptr - 1,
                             Append(out, complement_base[1]))
       ELSE out

\* Lines 58-123.
reverse_complement_impl_avx2(seq) ==
    LET len == Len(seq)
        remaining_len == len % kUnroll
    IN  Avx2TailLoop(seq, 0, remaining_len - 1,
                     Avx2MainLoop(seq, 0, len - kUnroll, <<>>))

InitRc ==
    /\ \/ sequence \in AllSeqs(MaxShortLen)
       \/ \E k \in 1..MaxSeqLen :
             \E p \in 1..k, b \in Bases, m \in Bases :
                sequence = MarkerSeq(k, p, b, m)
    /\ rc_default = <<>>
    /\ rc_avx2 = <<>>
    /\ rc_twice = <<>>
    /\ moves = <<>>
    /\ query_len = 0
    /\ target_len = 0
    /\ RealignIdle
    /\ MapIdle
    /\ MoreIdle
    /\ pc = "rc_call"

\* reverse_complement (lines 358-361) where the default version is
\* dispatched.
DefaultCall ==
    /\ pc = "rc_call"
    /\ rc_default' = reverse_complement_impl_default(sequence)
    /\ pc' = "rc_default_done"
    /\ UNCHANGED <<moves, realignVars, mapVars, moreVars, sequence, rc_avx2, rc_twice>>

\* The same call where the AVX2 version is dispatched.
Avx2Call ==
    /\ pc = "rc_default_done"
    /\ rc_avx2' = reverse_complement_impl_avx2(sequence)
    /\ pc' = "rc_both_done"
    /\ UNCHANGED <<moves, realignVars, mapVars, moreVars, sequence, rc_default,
                   rc_twice>>

\* Each version called on its own result.
SecondCalls ==
    /\ pc = "rc_both_done"
    /\ rc_twice' = <<reverse_complement_impl_default(rc_default),
                     reverse_complement_impl_avx2(rc_avx2)>>
    /\ pc' = "rc_done"
    /\ UNCHANGED <<moves, realignVars, mapVars, moreVars, sequence, rc_default,
                   rc_avx2>>

NextRc ==
    \/ DefaultCall
    \/ Avx2Call
    \/ SecondCalls

SpecRc == InitRc /\ [][NextRc]_vars

DefaultReturned == pc \in {"rc_default_done", "rc_both_done", "rc_done"}
BothReturned == pc \in {"rc_both_done", "rc_done"}

\* --------------------------------------------------------------- C18
\* C18: reverse_complement applied twice gives back its argument, for
\* every sequence over A, C, G, T, the empty one included.
C18_ReverseComplementInvolution ==
    pc = "rc_done" => (rc_twice[1] = sequence /\ rc_twice[2] = sequence)

\* Two calls on a sequence longer than a chunk that is not its own
\* reverse complement.
C18_Witness ==
    /\ pc = "rc_done"
    /\ Len(sequence) > kUnroll
    /\ rc_default # sequence
    /\ rc_twice[1] = sequence

\* --------------------------------------------------------------- C19
\* The pairing A <-> T, C <-> G.
Complement(base) ==
    IF base = BaseA THEN BaseT
    ELSE IF base = BaseT THEN BaseA
    ELSE IF base = BaseC THEN BaseG
    ELSE BaseC

\* out has the length n of seq, and its symbol i (0-based) is the
\* complement of symbol n - 1 - i of seq.
IsReverseComplementOf(out, seq) ==
    /\ Len(out) = Len(seq)
    /\ \A k \in 0..(Len(seq) - 1) :
           out[k + 1] = Complement(seq[(Len(seq) - 1 - k) + 1])

\* C19: reverse_complement(s) has the length n of s and its i-th symbol is
\* the complement of symbol n - 1 - i of s; "AACG" gives "CGTT".
C19_ReversedAndComplemented ==
    /\ DefaultReturned =>
          /\ IsReverseComplementOf(rc_default, sequence)
          /\ sequence = <<BaseA, BaseA, BaseC, BaseG>>
                => rc_default = <<BaseC, BaseG, BaseT, BaseT>>
    /\ BothReturned => IsReverseComplementOf(rc_avx2, sequence)

\* The call on "AACG" has returned.
C19_Witness ==
    /\ pc = "rc_default_done"
    /\ sequence = <<BaseA, BaseA, BaseC, BaseG>>
    /\ rc_default = <<BaseC, BaseG, BaseT, BaseT>>

\* --------------------------------------------------------------- C20
\* C20: the default and the AVX2 version return the same string for every
\* sequence over A, C, G, T of every length: 0, below one chunk, a
\* multiple of the chunk, and a multiple plus a remainder.
C20_DefaultAndAvx2Agree ==
    BothReturned => rc_avx2 = rc_default

\* Both versions have returned on two chunks plus a remainder of one, the
\* odd base lying in the second chunk read.
C20_Witness ==
    /\ pc = "rc_both_done"
    /\ Len(sequence) = 2 * kUnroll + 1
    /\ sequence[2] # sequence[1]
    /\ Len(rc_avx2) = Len(sequence)
    /\ rc_avx2[Len(sequence) - 1] # rc_avx2[1]

\* --------------------------------------------------------------- C27
\* C27: the walk takes every operation of the path the aligner returned:
\* as many operations as the path is long, so that its match/mismatch and
\* EDOP_DELETE steps add up to the query window and its match/mismatch and
\* EDOP_INSERT steps to the target window.
C27_WalkCoversWholePath ==
    (Returned /\ is_overlap) =>
        /\ ai = Len(path)
        /\ CountIn(alignment, MatchOps \cup {EDOP_DELETE})
              = query_end - query_start
        /\ CountIn(alignment, MatchOps \cup {EDOP_INSERT})
              = target_end - target_start

\* --------------------------------------------------------------- C28
\* The call is in the walk (lines 292-331) or has returned from it.
InWalk == pc \in {"walk", "match_loop", "query_loop", "done"}

\* How far the new table is ahead of the original one.
Lead == new_move_cursor + old_moves_offset - old_move_cursor

\* EDOP_INSERT entries among those the walk has taken.
InsertsTaken == CountIn(SubSeq(alignment, 1, ai), {EDOP_INSERT})

\* A match/mismatch step consumes a 0 of the original table without
\* emitting it (lines 301-302).
SuppressesZero ==
    /\ pc = "match_loop" /\ pc' = "match_loop"
    /\ old_move_cursor' = old_move_cursor + 1
    /\ new_moves' = new_moves

\* C28: throughout the walk new_move_cursor is the length of new_moves and
\* new_move_cursor + old_moves_offset >= old_move_cursor; the difference
\* never exceeds the number of EDOP_INSERT operations taken so far, and a
\* match/mismatch step suppresses a trailing 0 only while it is positive.
C28_NewTableLeadBoundedByInserts ==
    [][/\ InWalk' => /\ new_move_cursor' = Len(new_moves')
                     /\ Lead' >= 0
                     /\ Lead' <= InsertsTaken'
       /\ SuppressesZero => Lead > 0]_vars

\* The walk is about to suppress a 0 after an insertion.
C28_Witness ==
    /\ pc = "match_loop"
    /\ Lead > 0
    /\ InsertsTaken > 0
    /\ InRange(old_move_cursor)
    /\ moves[old_move_cursor + 1] = 0

\* ================================================ mean_qscore_from_qstring
\* mean_qscore_from_qstring (lines 130-158) as a call of its own.  A string
\* is the sequence of its bytes.  Floats are fixed-point integers: an error
\* probability p is round(p * 10^5), a q-score q is q * 100, NaN is -1.

\* Bounds of the arguments drawn: the string's length, and how far
\* start_pos lies below 0.
MaxQLen == 4
MaxNegStart == 2

\* The symbols drawn: ' ' (below the scale), '!' (q 0), '"' (q 1),
\* 'S' (q 50) and '~' (q 93).
QChars == {32, 33, 34, 83, 126}

QStrings(n) == UNION {[1..k -> QChars] : k \in 0..n}

\* 10^(-k/10) for k = 0..9, in units of 10^-5.
kDecade ==
    <<100000, 79433, 63096, 50119, 39811, 31623, 25119, 19953, 15849, 12589>>

\* std::pow(10.0f, -shifted / 10.0f), line 148.
Pow10Neg(shifted) == kDecade[(shifted % 10) + 1] \div (10 ^ (shifted \div 10))

\* Lines 144-152: the table, zero outside 33..127.
kCharToScoreTable(qchar) ==
    IF qchar >= 33 /\ qchar <= 127 THEN Pow10Neg(qchar - 33) ELSE 0

\* -10.0f * std::log10(total / count), line 156: exact where the mean is
\* 10^(-x/10) for a whole x, linear in between; any value of 50 or more is
\* given as 50, +infinity (a mean of 0) as 100, 0/0 as NaN.
NegTenLog10Mean(total, count) ==
    IF count = 0 THEN -1
    ELSE IF total = 0 THEN 10000
    ELSE LET x == CHOOSE k \in 0..50 :
                     /\ count * Pow10Neg(k) >= total
                     /\ (k = 50 \/ count * Pow10Neg(k + 1) < total)
         IN  IF x = 50 THEN 5000
             ELSE 100 * x
                  + ((count * Pow10Neg(x) - total) * 100)
                        \div (count * (Pow10Neg(x) - Pow10Neg(x + 1)))

\* Faulty variant of Clamp: the value as it is.
ClampNot(v, lo, hi) == v

\* std::clamp, line 157; every comparison with NaN is false.
Clamp(v, lo, hi) == IF v = -1 THEN v
                    ELSE IF v < lo THEN lo
                    ELSE IF hi < v THEN hi
                    ELSE v

\* Faulty variant of IsEmptyString: no string counts as empty.
IsEmptyStringNever(str) == FALSE

\* Line 131.
IsEmptyString(str) == Len(str) = 0

\* Faulty variant of StartPastEnd: the end itself is let through.
StartBeyondEnd(pos, length) == pos > length

\* Line 135.
StartPastEnd(pos, length) == pos >= length

\* The table values a read of the string at index i adds to the sum: the
\* symbol's when i is inside the string, any when it is not.
QInRange(i_) == i_ >= 0 /\ i_ < Len(qstring)
QReadScores(i_) ==
    IF QInRange(i_) THEN {kCharToScoreTable(qstring[i_ + 1])}
    ELSE {kCharToScoreTable(qchar) : qchar \in QChars}

InitQ ==
    /\ qstring \in QStrings(MaxQLen)
    /\ start_pos \in (0 - MaxNegStart)..(MaxQLen + 1)
    /\ q_cursor = 0
    /\ total_error = 0
    /\ mean_qscore = 0
    /\ moves = <<>>
    /\ query_len = 0
    /\ target_len = 0
    /\ RealignIdle
    /\ MapIdle
    /\ RcIdle
    /\ OvIdle
    /\ CsIdle
    /\ TcIdle
    /\ ConcIdle
    /\ pc = "q_call"

\* Lines 131-133.
QEmptyReturn ==
    /\ pc = "q_call"
    /\ IsEmptyString(qstring)
    /\ mean_qscore' = 0
    /\ pc' = "q_done"
    /\ UNCHANGED <<qOthers, qstring, start_pos,
                   q_cursor, total_error>>

\* Lines 135-139: std::runtime_error.
QThrow ==
    /\ pc = "q_call"
    /\ ~IsEmptyString(qstring)
    /\ StartPastEnd(start_pos, Len(qstring))
    /\ pc' = "q_thrown"
    /\ UNCHANGED <<qOthers, qVars>>

\* Line 153: std::accumulate starts at cbegin() + start_pos with 0.0f.
QBegin ==
    /\ pc = "q_call"
    /\ ~IsEmptyString(qstring)
    /\ ~StartPastEnd(start_pos, Len(qstring))
    /\ q_cursor' = start_pos
    /\ total_error' = 0
    /\ pc' = "q_accumulate"
    /\ UNCHANGED <<qOthers, qstring, start_pos,
                   mean_qscore>>

\* Lines 153-155: one symbol added.
QAccumulateStep ==
    /\ pc = "q_accumulate"
    /\ q_cursor < Len(qstring)
    /\ \E score \in QReadScores(q_cursor) :
          total_error' = total_error + score
    /\ q_cursor' = q_cursor + 1
    /\ UNCHANGED <<qOthers, qstring, start_pos,
                   mean_qscore, pc>>

\* A read before the start of the string may fault.
QReadFault ==
    /\ pc = "q_accumulate"
    /\ q_cursor < Len(qstring)
    /\ ~QInRange(q_cursor)
    /\ pc' = "q_crashed"
    /\ UNCHANGED <<qOthers, qVars>>

\* Lines 156-158; qstring.size() - start_pos is unsigned arithmetic, which
\* for a negative start_pos wraps to size + |start_pos|.
QReturn ==
    /\ pc = "q_accumulate"
    /\ q_cursor = Len(qstring)
    /\ mean_qscore' =
          Clamp(NegTenLog10Mean(total_error, Len(qstring) - start_pos),
                100, 5000)
    /\ pc' = "q_done"
    /\ UNCHANGED <<qOthers, qstring, start_pos,
                   q_cursor, total_error>>

NextQ ==
    \/ QEmptyReturn
    \/ QThrow
    \/ QBegin
    \/ QAccumulateStep
    \/ QReadFault
    \/ QReturn

SpecQ == InitQ /\ [][NextQ]_vars

QCalled == pc \in {"q_accumulate", "q_done", "q_thrown", "q_crashed"}
QReturned == pc = "q_done"
QThrown == pc = "q_thrown"

\* --------------------------------------------------------------- C21
\* C21 as claimed: for every quality string and every start_pos >= its
\* length, start_pos = length included, the call throws and returns no
\* value.
C21_StartPastEndThrows ==
    (QCalled /\ start_pos >= Len(qstring)) => QThrown

\* C21 as the code has it: for every non-empty quality string and every
\* start_pos >= its length the call throws and returns no value; for the
\* empty string it returns, whatever start_pos is.
C21_StartPastEndOfNonEmptyThrows ==
    /\ (QCalled /\ Len(qstring) > 0 /\ start_pos >= Len(qstring)) => QThrown
    /\ (QCalled /\ Len(qstring) = 0) => QReturned

\* The call with start_pos = length on a non-empty string has thrown.
C21_Witness ==
    /\ QThrown
    /\ Len(qstring) > 0
    /\ start_pos = Len(qstring)

\* --------------------------------------------------------------- C22
\* C22: for the empty quality string the call returns 0 and does not
\* throw (start_pos 0 included).
C22_EmptyStringGivesZero ==
    (QCalled /\ qstring = <<>>) => (QReturned /\ mean_qscore = 0)

\* mean_qscore_from_qstring("", 0) has returned.
C22_Witness ==
    /\ QReturned
    /\ qstring = <<>>
    /\ start_pos = 0
    /\ mean_qscore = 0

\* --------------------------------------------------------------- C23
\* Every symbol from start_pos on is '!'.
AllBang == \A k \in (start_pos + 1)..Len(qstring) : qstring[k] = 33

\* C23: for a non-empty string and 0 <= start_pos < length the result
\* lies in [1, 50], and is exactly 1 when every symbol from start_pos on
\* is '!'.
C23_ResultClamped ==
    (QReturned /\ Len(qstring) > 0 /\ start_pos >= 0) =>
        /\ mean_qscore >= 100
        /\ mean_qscore <= 5000
        /\ AllBang => mean_qscore = 100

\* mean_qscore_from_qstring("!!!!", 0) has returned 1.
C23_Witness ==
    /\ QReturned
    /\ qstring = <<33, 33, 33, 33>>
    /\ start_pos = 0
    /\ mean_qscore = 100

\* --------------------------------------------------------------- C30
\* C30: on a non-empty string only symbols at indices start_pos..length-1
\* with start_pos >= 0 are read; a negative start_pos is rejected with an
\* error and used neither as an offset nor in the divisor.
C30_NegativeStartRejected ==
    (QCalled /\ Len(qstring) > 0) =>
        /\ start_pos < 0 => QThrown
        /\ pc = "q_accumulate" => q_cursor >= 0

\* ============================================================ move_cum_sums
\* move_cum_sums (lines 344-353) as a call of its own.
MaxCsMoves == 5

InitCs ==
    /\ moves \in MoveTables(MaxCsMoves)
    /\ ans = <<>>
    /\ cs_i = 0
    /\ NoRealign
    /\ MapIdle
    /\ RcIdle
    /\ QIdle
    /\ OvIdle
    /\ TcIdle
    /\ ConcIdle
    /\ pc = "cs_call"

\* Lines 345-348: ans(moves.size(), 0); ans[0] = moves[0] unless empty.
CsAllocate ==
    /\ pc = "cs_call"
    /\ ans' = [k \in 1..Len(moves) |-> IF k = 1 THEN moves[1] ELSE 0]
    /\ cs_i' = 1
    /\ pc' = "cs_loop"
    /\ UNCHANGED csOthers

\* Faulty variant of CsSum: every block counts as a move.
CsSumCountsBlocks(previous, entry) == previous + 1

\* Line 350.
CsSum(previous, entry) == previous + entry

\* Lines 349-351: one iteration.
CsStep ==
    /\ pc = "cs_loop"
    /\ cs_i < Len(moves)
    /\ ans' = [ans EXCEPT ![cs_i + 1] = CsSum(ans[cs_i], moves[cs_i + 1])]
    /\ cs_i' = cs_i + 1
    /\ UNCHANGED <<csOthers, pc>>

\* Line 352.
CsReturn ==
    /\ pc = "cs_loop"
    /\ cs_i >= Len(moves)
    /\ pc' = "cs_done"
    /\ UNCHANGED <<csOthers, ans, cs_i>>

NextCs ==
    \/ CsAllocate
    \/ CsStep
    \/ CsReturn

SpecCs == InitCs /\ [][NextCs]_vars

\* --------------------------------------------------------------- C24
\* The sum of entries 0..i_ of table t.
RECURSIVE SumThrough(_, _)
SumThrough(t, i_) == IF i_ < 0 THEN 0 ELSE SumThrough(t, i_ - 1) + t[i_ + 1]

\* C24: the result has the table's length and its element i is the sum of
\* the table's entries 0..i (an empty table gives an empty result); no
\* step changes the table.
C24_CumSumsArePrefixSums ==
    [][/\ moves' = moves
       /\ pc' = "cs_done" =>
             /\ Len(ans') = Len(moves')
             /\ \A k \in 0..(Len(moves') - 1) :
                    ans'[k + 1] = SumThrough(moves', k)
             /\ (moves' = <<>> => ans' = <<>>)]_vars

\* The sums of a table with 1s and 0s have been returned.
C24_Witness ==
    /\ pc = "cs_done"
    /\ moves = <<1, 0, 1, 1, 0>>
    /\ ans = <<1, 1, 2, 3, 3>>

\* ========================================================== compute_overlap
\* compute_overlap (lines 189-235) as a call of its own.  The mapper
\* (minimap2) is an external library: the hits it returns are drawn at
\* Init.  A hit is a record of mapq and the coordinates rs, re, qs, qe.

\* Bounds: the number of hits, and their mapping quality.
MaxHits == 3
MaxMapq == 2

\* A hit at one of two places; its four coordinates differ from each other.
Hit(quality, place) ==
    [mapq |-> quality, rs |-> place, re |-> place + 2,
     qs |-> place + 4, qe |-> place + 6]

HitLists(n) ==
    UNION {[1..k -> {Hit(quality, place) :
                        quality \in 0..MaxMapq, place \in {0, 1}}] :
              k \in 0..n}

InitOv ==
    /\ reg \in HitLists(MaxHits)
    /\ best_map = 0
    /\ ov_scan = 0
    /\ overlap_result = <<>>
    /\ moves = <<>>
    /\ NoRealign
    /\ MapIdle
    /\ RcIdle
    /\ QIdle
    /\ CsIdle
    /\ TcIdle
    /\ ConcIdle
    /\ pc = "ov_call"

\* Lines 190-211: the result starts as not found; the mapper has run.
OvMapped ==
    /\ pc = "ov_call"
    /\ overlap_result' = <<FALSE, 0, 0, 0, 0>>
    /\ best_map' = 0
    /\ ov_scan' = 1
    /\ pc' = IF Len(reg) > 0 THEN "ov_max" ELSE "ov_free"
    /\ UNCHANGED <<ovOthers, reg>>

\* Faulty variant of MapqLess: a later hit of equal quality wins.
MapqLessOrEqual(l, r) == l.mapq <= r.mapq

\* Line 221: the comparison std::max_element is given.
MapqLess(l, r) == l.mapq < r.mapq

\* Lines 219-221: std::max_element looks at one more hit.
OvMaxStep ==
    /\ pc = "ov_max"
    /\ ov_scan < Len(reg)
    /\ best_map' = IF MapqLess(reg[best_map + 1], reg[ov_scan + 1])
                      THEN ov_scan ELSE best_map
    /\ ov_scan' = ov_scan + 1
    /\ UNCHANGED <<ovOthers, reg, overlap_result, pc>>

\* Lines 222-227.
OvTakeBest ==
    /\ pc = "ov_max"
    /\ ov_scan >= Len(reg)
    /\ LET target_start_ == reg[best_map + 1].rs
           target_end_ == reg[best_map + 1].re
           query_start_ == reg[best_map + 1].qs
           query_end_ == reg[best_map + 1].qe
       IN  overlap_result' =
              <<TRUE, target_start_, target_end_, query_start_, query_end_>>
    /\ pc' = "ov_free"
    /\ UNCHANGED <<ovOthers, reg, best_map, ov_scan>>

\* Lines 230-235: the hits are freed, the result returned.
OvReturn ==
    /\ pc = "ov_free"
    /\ pc' = "ov_done"
    /\ UNCHANGED <<ovOthers, ovVars>>

NextOv ==
    \/ OvMapped
    \/ OvMaxStep
    \/ OvTakeBest
    \/ OvReturn

SpecOv == InitOv /\ [][NextOv]_vars

\* --------------------------------------------------------------- C25
\* The first hit (1-based) among those of highest mapping quality.
FirstBestHit ==
    CHOOSE b \in 1..Len(reg) :
        /\ \A k \in 1..Len(reg) : reg[k].mapq <= reg[b].mapq
        /\ \A k \in 1..(b - 1) : reg[k].mapq < reg[b].mapq

\* C25: without hits the result is found = false and four zero offsets;
\* with hits it is found = true and the coordinates of the hit of highest
\* mapping quality, the first such hit in the mapper's order.
C25_BestHitFirstOnTies ==
    pc = "ov_done" =>
        IF Len(reg) = 0
           THEN overlap_result = <<FALSE, 0, 0, 0, 0>>
           ELSE overlap_result =
                   <<TRUE, reg[FirstBestHit].rs, reg[FirstBestHit].re,
                     reg[FirstBestHit].qs, reg[FirstBestHit].qe>>

\* Returned with three hits, the last two sharing the highest quality at
\* different places.
C25_Witness ==
    /\ pc = "ov_done"
    /\ Len(reg) = 3
    /\ reg[1].mapq < reg[2].mapq
    /\ reg[2].mapq = reg[3].mapq
    /\ reg[2].rs # reg[3].rs
    /\ overlap_result[2] = reg[2].rs

\* ===================================================== count_trailing_chars
\* count_trailing_chars (lines 372-384) as a call of its own.  The index i
\* is a size_t: a number modulo 2^64, kept here as its residue nearest to
\* 0, so that 0 - 1 (which is 2^64 - 1) is -1.  As an offset from the
\* string's first byte that is the byte before it.

\* Bounds: the string's length, and the reads outside the string that
\* yield a value before the run is cut off.
MaxAdapterLen == 4
MaxTcOOB == 2

\* The characters drawn: 'A' and 'T'.
TcChars == {65, 84}

InitTc ==
    /\ adapter \in UNION {[1..k -> TcChars] : k \in 0..MaxAdapterLen}
    /\ tc_c \in TcChars
    /\ tc_count = 0
    /\ tc_i = 0
    /\ moves = <<>>
    /\ NoRealign
    /\ MapIdle
    /\ RcIdle
    /\ QIdle
    /\ OvIdle
    /\ CsIdle
    /\ ConcIdle
    /\ pc = "tc_call"

\* Lines 373-374: int count = 0; size_t i = adapter.length() - 1.
TcBegin ==
    /\ pc = "tc_call"
    /\ tc_count' = 0
    /\ tc_i' = Len(adapter) - 1
    /\ pc' = "tc_loop"
    /\ UNCHANGED <<tcOthers, adapter, tc_c>>

\* Line 374: i >= 0, which every size_t satisfies; the loop has no other
\* exit than the break.
TcLoopGuard(i_) == TRUE

\* adapter[i]: the character when i is inside the string, any otherwise.
TcInRange(i_) == i_ >= 0 /\ i_ < Len(adapter)
TcReads == Len(adapter) - 1 - tc_i
TcReadValues(i_) ==
    IF TcInRange(i_) THEN {adapter[i_ + 1]}
    ELSE IF TcReads < Len(adapter) + MaxTcOOB THEN TcChars ELSE {}

\* Lines 374-377: the character is c.
TcCount ==
    /\ pc = "tc_loop"
    /\ TcLoopGuard(tc_i)
    /\ tc_c \in TcReadValues(tc_i)
    /\ tc_count' = tc_count + 1
    /\ tc_i' = tc_i - 1
    /\ UNCHANGED <<tcOthers, adapter, tc_c, pc>>

\* Lines 374-383: the character is not c; break and return count.
TcBreak ==
    /\ pc = "tc_loop"
    /\ TcLoopGuard(tc_i)
    /\ \E ch \in TcReadValues(tc_i) : ch # tc_c
    /\ pc' = "tc_done"
    /\ UNCHANGED <<tcOthers, tcVars>>

\* A read outside the string may fault.
TcReadFault ==
    /\ pc = "tc_loop"
    /\ TcLoopGuard(tc_i)
    /\ ~TcInRange(tc_i)
    /\ pc' = "tc_crashed"
    /\ UNCHANGED <<tcOthers, tcVars>>

NextTc ==
    \/ TcBegin
    \/ TcCount
    \/ TcBreak
    \/ TcReadFault

SpecTc == InitTc /\ [][NextTc]_vars

\* --------------------------------------------------------------- C29
\* Length of the longest suffix of str made of character ch only.
RECURSIVE TrailingRun(_, _)
TrailingRun(str, ch) ==
    IF Len(str) = 0 \/ str[Len(str)] # ch THEN 0
    ELSE 1 + TrailingRun(SubSeq(str, 1, Len(str) - 1), ch)

\* C29: the call terminates for every input and returns the length of
\* the longest suffix made of c only, reading only indices inside the
\* string; the empty string gives 0, a string made of c its length.
C29_CountsTrailingWithinString ==
    /\ pc = "tc_loop" => TcInRange(tc_i)
    /\ pc = "tc_done" => tc_count = TrailingRun(adapter, tc_c)
    /\ pc # "tc_crashed"

\* ======================================================= concurrent calls
\* Two workers, each making one call of its own: of
\* mean_qscore_from_qstring, whose table kCharToScoreTable is a static
\* local initialised on first use (lines 144-152), or of
\* reverse_complement, whose table is a compile-time constant (line 34).
\* Each call has its own arguments and locals; the static table and its
\* guard are the only state the calls share.  The language initialises a
\* static local once: the first call to reach it does so, a call that
\* reaches it meanwhile waits.
Workers == {1, 2}

Jobs == {"mean_qscore_from_qstring", "reverse_complement"}

\* Bound of the arguments drawn: the quality string's length.
MaxConcLen == 2

\* A worker's argument: a string and, for mean_qscore_from_qstring, a
\* start position.
ConcArgs ==
    [str : UNION {[1..k -> {33, 43}] : k \in 0..MaxConcLen} \cup AllSeqs(1),
     start : 0..MaxConcLen]

ArgFits(job, arg) ==
    IF job = "reverse_complement"
       THEN arg.str \in AllSeqs(1) /\ arg.start = 0
       ELSE /\ \A k \in 1..Len(arg.str) : arg.str[k] \in {33, 43}
            /\ arg.start <= Len(arg.str)

InitConc ==
    /\ w_job \in [Workers -> Jobs]
    /\ w_arg \in [Workers -> ConcArgs]
    /\ \A w \in Workers : ArgFits(w_job[w], w_arg[w])
    /\ w_pc = [w \in Workers |-> "call"]
    /\ w_cursor = [w \in Workers |-> 0]
    /\ w_total = [w \in Workers |-> 0]
    /\ w_result = [w \in Workers |-> 0]
    /\ table_guard = "uninitialised"
    /\ table_filled = FALSE
    /\ table_writes = 0
    /\ moves = <<>>
    /\ NoRealign
    /\ MapIdle
    /\ RcIdle
    /\ QIdle
    /\ OvIdle
    /\ CsIdle
    /\ TcIdle
    /\ pc = "workers"

\* Lines 358-361 and 23-52: no state outside the call is touched.
WReverseComplement(w) ==
    /\ w_pc[w] = "call"
    /\ w_job[w] = "reverse_complement"
    /\ w_result' =
          [w_result EXCEPT ![w] = reverse_complement_impl_default(w_arg[w].str)]
    /\ w_pc' = [w_pc EXCEPT ![w] = "done"]
    /\ UNCHANGED <<concOthers, pc, w_job, w_arg, w_cursor, w_total,
                   table_guard, table_filled, table_writes>>

\* Lines 131-133.
WEmptyReturn(w) ==
    /\ w_pc[w] = "call"
    /\ w_job[w] = "mean_qscore_from_qstring"
    /\ IsEmptyString(w_arg[w].str)
    /\ w_result' = [w_result EXCEPT ![w] = 0]
    /\ w_pc' = [w_pc EXCEPT ![w] = "done"]
    /\ UNCHANGED <<concOthers, pc, w_job, w_arg, w_cursor, w_total,
                   table_guard, table_filled, table_writes>>

\* Lines 135-139.
WThrow(w) ==
    /\ w_pc[w] = "call"
    /\ w_job[w] = "mean_qscore_from_qstring"
    /\ ~IsEmptyString(w_arg[w].str)
    /\ StartPastEnd(w_arg[w].start, Len(w_arg[w].str))
    /\ w_pc' = [w_pc EXCEPT ![w] = "thrown"]
    /\ UNCHANGED <<concOthers, pc, w_job, w_arg, w_cursor, w_total, w_result,
                   table_guard, table_filled, table_writes>>

\* Line 144: control reaches the declaration of the static table.
WReachTable(w) ==
    /\ w_pc[w] = "call"
    /\ w_job[w] = "mean_qscore_from_qstring"
    /\ ~IsEmptyString(w_arg[w].str)
    /\ ~StartPastEnd(w_arg[w].start, Len(w_arg[w].str))
    /\ w_pc' = [w_pc EXCEPT ![w] = "static"]
    /\ UNCHANGED <<concOthers, pc, w_job, w_arg, w_cursor, w_total, w_result,
                   table_guard, table_filled, table_writes>>

\* Line 144: the first call to arrive starts the initialisation ...
WInitBegin(w) ==
    /\ w_pc[w] = "static"
    /\ table_guard = "uninitialised"
    /\ table_guard' = "initialising"
    /\ w_pc' = [w_pc EXCEPT ![w] = "init"]
    /\ UNCHANGED <<concOthers, pc, w_job, w_arg, w_cursor, w_total, w_result,
                   table_filled, table_writes>>

\* ... lines 145-151: fills the table, and goes on to line 152.
WInitEnd(w) ==
    /\ w_pc[w] = "init"
    /\ table_filled' = TRUE
    /\ table_writes' = table_writes + 1
    /\ table_guard' = "initialised"
    /\ w_cursor' = [w_cursor EXCEPT ![w] = w_arg[w].start]
    /\ w_total' = [w_total EXCEPT ![w] = 0]
    /\ w_pc' = [w_pc EXCEPT ![w] = "accumulate"]
    /\ UNCHANGED <<concOthers, pc, w_job, w_arg, w_result>>

\* Faulty variant of TableReady: a table under initialisation is used.
TableReadyOnceStarted(guard) == guard # "uninitialised"

\* Line 144: a call goes past the declaration once the table is
\* initialised, and waits while another call initialises it.
TableReady(guard) == guard = "initialised"

WPassTable(w) ==
    /\ w_pc[w] = "static"
    /\ TableReady(table_guard)
    /\ w_cursor' = [w_cursor EXCEPT ![w] = w_arg[w].start]
    /\ w_total' = [w_total EXCEPT ![w] = 0]
    /\ w_pc' = [w_pc EXCEPT ![w] = "accumulate"]
    /\ UNCHANGED <<concOthers, pc, w_job, w_arg, w_result, table_guard,
                   table_filled, table_writes>>

\* kCharToScoreTable[qchar] as the shared table holds it: std::array a{}
\* is all zero until lines 146-149 have run.
SharedTableRead(qchar) ==
    IF table_filled THEN kCharToScoreTable(qchar) ELSE 0

\* Lines 153-154: one symbol added.
WAccumulate(w) ==
    /\ w_pc[w] = "accumulate"
    /\ w_cursor[w] < Len(w_arg[w].str)
    /\ w_total' =
          [w_total EXCEPT
              ![w] = @ + SharedTableRead(w_arg[w].str[w_cursor[w] + 1])]
    /\ w_cursor' = [w_cursor EXCEPT ![w] = @ + 1]
    /\ UNCHANGED <<concOthers, pc, w_job, w_arg, w_result, w_pc, table_guard,
                   table_filled, table_writes>>

\* Lines 155-157.
WReturn(w) ==
    /\ w_pc[w] = "accumulate"
    /\ w_cursor[w] = Len(w_arg[w].str)
    /\ w_result' =
          [w_result EXCEPT
              ![w] = Clamp(NegTenLog10Mean(w_total[w],
                               Len(w_arg[w].str) - w_arg[w].start),
                           100, 5000)]
    /\ w_pc' = [w_pc EXCEPT ![w] = "done"]
    /\ UNCHANGED <<concOthers, pc, w_job, w_arg, w_cursor, w_total,
                   table_guard, table_filled, table_writes>>

NextConc ==
    \E w \in Workers :
        \/ WReverseComplement(w)
        \/ WEmptyReturn(w)
        \/ WThrow(w)
        \/ WReachTable(w)
        \/ WInitBegin(w)
        \/ WInitEnd(w)
        \/ WPassTable(w)
        \/ WAccumulate(w)
        \/ WReturn(w)

SpecConc == InitConc /\ [][NextConc]_vars

\* --------------------------------------------------------------- C26
\* What a call returns when it runs alone.
RECURSIVE SumOfScores(_, _)
SumOfScores(str, from) ==
    IF from >= Len(str) THEN 0
    ELSE kCharToScoreTable(str[from + 1]) + SumOfScores(str, from + 1)

ResultAlone(job, arg) ==
    IF job = "reverse_complement"
       THEN reverse_complement_impl_default(arg.str)
    ELSE IF Len(arg.str) = 0 THEN 0
    ELSE Clamp(NegTenLog10Mean(SumOfScores(arg.str, arg.start),
                               Len(arg.str) - arg.start), 100, 5000)

ThrowsAlone(job, arg) ==
    /\ job = "mean_qscore_from_qstring"
    /\ Len(arg.str) > 0
    /\ arg.start >= Len(arg.str)

\* C26: under every interleaving each call ends as it does alone: with the
\* same result, or with the same error.  The shared table is written once,
\* before any call reads it, and never again.
C26_InterleavedCallsAsAlone ==
    /\ \A w \in Workers :
          /\ w_pc[w] = "done" => w_result[w] = ResultAlone(w_job[w], w_arg[w])
          /\ w_pc[w] = "done" => ~ThrowsAlone(w_job[w], w_arg[w])
          /\ w_pc[w] = "thrown" => ThrowsAlone(w_job[w], w_arg[w])
          /\ w_pc[w] = "accumulate" => table_filled
    /\ table_writes <= 1
    /\ table_filled <=> table_writes = 1

\* Two calls of mean_qscore_from_qstring on different strings have both
\* returned, one of them having initialised the table.
C26_Witness ==
    /\ \A w \in Workers :
          /\ w_pc[w] = "done"
          /\ w_job[w] = "mean_qscore_from_qstring"
          /\ Len(w_arg[w].str) = MaxConcLen
    /\ w_arg[1].str # w_arg[2].str
    /\ w_result[1] # w_result[2]
    /\ table_writes = 1

====
